---- MODULE Spec2Model ----
(***************************************************************************)
(* The asynchronous completion-polling helpers of banking-mcp              *)
(* (src/__tests__/e2e/test-utils.ts): pollUntil and the six waitFor*       *)
(* wrappers built on it.  One behaviour of the model is one call of one    *)
(* of these functions.  Times are in milliseconds.  The clock (Date.now)   *)
(* advances only while the call is suspended: inside the awaited accessor  *)
(* (by the latency of that invocation) and inside the awaited setTimeout   *)
(* (by pollInterval; timers are taken to fire on time).                    *)
(*                                                                         *)
(* Texts (error messages, JSON) are sequences of string tokens; a text     *)
(* contains a piece when the piece is one of its tokens.                   *)
(***************************************************************************)
EXTENDS Integers, Sequences, FiniteSets, TLC

\* ------------------------------------------------------------------ bounds
\* The accessor fails at most MaxFail times in one call.
MaxFail == 2
\* The accessor takes a non-zero time at most MaxSlow times in one call.
MaxSlow == 1

\* ------------------------------------------------------- program constants
DefaultMaxWait == 30000
DefaultPollInterval == 1000
BankMaxWait == 120000
BankPollInterval == 5000
AchMaxWait == 300000
AchPollInterval == 10000
OrderMaxWait == 60000
OrderPollInterval == 2000
TxMinConfirmations == 1
TxMaxWait == 600000
TxPollInterval == 15000
LightningMaxWait == 120000
LightningPollInterval == 3000
KycMaxWait == 300000
KycPollInterval == 10000

\* ------------------------------------------------------------ JS values
\* The value undefined of a variable that otherwise holds an object.
undefined == [undefined |-> TRUE]
\* What reading a property the object does not have yields.
NoProp == "<undefined>"
\* The empty record: an argument list or options object with nothing given.
Nothing == [k \in {} |-> 0]

Has(r, k) == k \in DOMAIN r
Get(r, k) == IF Has(r, k) THEN r[k] ELSE NoProp
\* String truthiness: undefined and "" are falsy.
Truthy(v) == v \notin {NoProp, ""}
\* a || b on strings
Or(a, b) == IF Truthy(a) THEN a ELSE b
\* A variant with ?? in place of ||: only a missing key gives dflt.
NumOr_Nullish(r, k, dflt) == IF Has(r, k) THEN r[k] ELSE dflt
\* options.key || dflt on numbers: a missing key and 0 give dflt.
NumOr(r, k, dflt) == IF Has(r, k) /\ r[k] # 0 THEN r[k] ELSE dflt
\* A parameter with a default value: the default applies when the argument
\* is not given.
Param(a, k, dflt) == IF Has(a, k) THEN a[k] ELSE dflt

Quote(s) == "\"" \o s \o "\""
Contains(text, piece) == \E i \in 1..Len(text) : text[i] = piece
ContainsText(text, part) ==
  \E i \in 1..(Len(text) - Len(part) + 1) :
    SubSeq(text, i, i + Len(part) - 1) = part
StartsWith(text, part) ==
  Len(part) <= Len(text) /\ SubSeq(text, 1, Len(part)) = part

\* ------------------------------------------------------------- inputs
Fns == {"pollUntil", "waitForBankAccountVerification",
        "waitForAchDebitCompletion", "waitForOrderFill",
        "waitForTransactionConfirmation", "waitForLightningInvoicePaid",
        "waitForKycApproval"}

\* What the accessor of each call site can return: objects of the remote
\* API.  Every field is a string except confirmations, a number.
ResultsFor(f) ==
  CASE f = "pollUntil" ->
         { [status |-> "pending"], [status |-> "paid"], [status |-> "done"],
           [confirmations |-> 0] }
    [] f = "waitForBankAccountVerification" ->
         { [verificationState |-> "pending"], [verificationState |-> "verified"],
           [status |-> "approved"],
           [verificationState |-> "pending", status |-> "verified"] }
    [] f = "waitForAchDebitCompletion" ->
         { [status |-> "pending"], [status |-> "completed"],
           [status |-> "failed"] }
    [] f = "waitForOrderFill" ->
         { [status |-> "open"], [status |-> "filled", filledQuantity |-> "0.001"],
           [status |-> "done"], [status |-> "cancelled"] }
    [] f = "waitForTransactionConfirmation" ->
         { [confirmations |-> 0], [confirmations |-> 1],
           [status |-> "pending", confirmations |-> 2],
           [status |-> "pending"], [status |-> "confirmed"] }
    [] f = "waitForLightningInvoicePaid" ->
         { [status |-> "pending"], [status |-> "paid"], [status |-> "expired"] }
    [] f = "waitForKycApproval" ->
         { [status |-> "pending"], [status |-> "approved"],
           [verificationStatus |-> "verified"],
           [status |-> "pending", verificationStatus |-> "approved"] }
    [] OTHER -> {}

\* How long one accessor invocation takes.
Latencies == {0, 1500}

\* Caller-supplied predicates of pollUntil: true on the results whose status
\* is in accept; a strict one dereferences the status and throws when the
\* result has none.
Conditions ==
  { [accept |-> {"paid", "settled", "expired", "cancelled"}, strict |-> FALSE],
    [accept |-> {"done"}, strict |-> TRUE] }

CustomMessage == <<"Invoice did not reach final state">>

\* Options objects given to pollUntil by its callers.
MaxWaitOptions == {Nothing} \cup {[maxWait |-> w] : w \in {0, -1000, 500, 3000}}
PollIntervalOptions == {Nothing} \cup {[pollInterval |-> i] : i \in {0, 2000}}
TimeoutMessageOptions ==
  {Nothing, [timeoutMessage |-> <<>>], [timeoutMessage |-> CustomMessage]}
\* The options object of the documented usage, pollUntil(fn, cond, {timeout}).
TimeoutAliasOptions == {[timeout |-> 2000]}
PollOptions ==
  { a @@ b @@ c : a \in MaxWaitOptions, b \in PollIntervalOptions,
                  c \in TimeoutMessageOptions }
    \cup TimeoutAliasOptions

\* Arguments of the wrappers after the accessor.
WrapperArgs(f) ==
  LET mw == {Nothing} \cup {[maxWait |-> w] : w \in {0, 10000}}
      mc == {Nothing} \cup {[minConfirmations |-> c] : c \in {0, 1, 2}}
  IN  CASE f = "waitForBankAccountVerification" ->
             {[bankAccountId |-> "ba_1"] @@ a : a \in mw}
        [] f = "waitForTransactionConfirmation" ->
             {a @@ b : a \in mw, b \in mc}
        [] OTHER -> mw

VARIABLES
  fn,           \* the function called
  args,         \* a wrapper's arguments
  options,      \* the options object pollUntil receives
  condition,    \* the caller's predicate (pollUntil called directly)
  startTime, now,
  lastResult, attempts,
  pc,           \* "loop", "await", "sleep", "returned", "threw"
  result,       \* what pollUntil returned
  error,        \* what pollUntil threw
  sleeps,       \* instrumentation: setTimeout sleeps completed
  nFail,        \* instrumentation: accessor failures
  nSlow,        \* instrumentation: slow accessor invocations
  lastLatency   \* instrumentation: duration of the last accessor invocation

\* The other helpers, each a record holding one call of it:
VARIABLES
  predicateCall,  \* one evaluation of a wrapper's predicate
  retryCall,      \* one call of retry
  requestCall,    \* one call of a MagnoliaClient method
  toolCall,       \* one invocation of a registered tool of the server
  cleanupCall,    \* one call of cleanupTestResources
  concurrentCalls \* calls of pollUntil and retry running concurrently

pollVars == <<fn, args, options, condition, startTime, now, lastResult,
              attempts, pc, result, error, sleeps, nFail, nSlow, lastLatency>>

vars == <<fn, args, options, condition, startTime, now, lastResult, attempts,
          pc, result, error, sleeps, nFail, nSlow, lastLatency,
          predicateCall, retryCall, requestCall,
          toolCall, cleanupCall, concurrentCalls>>

\* A helper that is not called in the behaviour at hand.
Idle == [pc |-> "idle"]

\* No tool invocation, no cleanup and no concurrent calls in the behaviour
\* at hand.
NoOtherCall ==
  toolCall = Idle /\ cleanupCall = Idle /\ concurrentCalls = Idle

\* ---------------------------------------------------------- pollUntil
maxWait == NumOr(options, "maxWait", DefaultMaxWait)
pollInterval == NumOr(options, "pollInterval", DefaultPollInterval)

\* Variants of the while condition: one more interval of grace; a deadline
\* that is still open at elapsed = maxWait.
WithinDeadline_Grace == now - startTime < maxWait + pollInterval
WithinDeadline_Inclusive == now - startTime <= maxWait

\* The while condition.
WithinDeadline == now - startTime < maxWait

\* ----------------------------------------------------- the predicates
CallerCondition(c, r) == Get(r, "status") \in c.accept
CallerConditionThrows(c, r) == c.strict /\ ~Has(r, "status")

\* A variant that reads the two keys in the other order.
BankCondition_StatusFirst(account) ==
  LET state == Or(Get(account, "status"), Get(account, "verificationState"))
  IN  state = "verified" \/ state = "approved"

BankCondition(account) ==
  LET state == Or(Get(account, "verificationState"), Get(account, "status"))
  IN  state = "verified" \/ state = "approved"

AchCondition(r) ==
  LET status == Get(r, "status")
  IN  status = "completed" \/ status = "settled" \/ status = "done"

\* A variant that takes every status but open for a fill.
OrderCondition_NotOpen(order) == Get(order, "status") # "open"

OrderCondition(order) ==
  LET status == Get(order, "status")
  IN  status = "filled" \/ status = "done" \/ status = "settled"

\* Number(transfer.confirmations || 0)
Confirmations(transfer) ==
  IF Has(transfer, "confirmations") THEN transfer.confirmations ELSE 0

\* A variant that asks for more confirmations than the threshold.
TxCondition_Strict(transfer, minConfirmations) ==
  LET status == Get(transfer, "status")
  IN  \/ status = "confirmed"
      \/ status = "complete"
      \/ Confirmations(transfer) > minConfirmations

\* A variant without the || 0: a missing confirmations field is NaN, which
\* compares false with every threshold.
TxCondition_NaN(transfer, minConfirmations) ==
  LET status == Get(transfer, "status")
  IN  \/ status = "confirmed"
      \/ status = "complete"
      \/ /\ Has(transfer, "confirmations")
         /\ transfer.confirmations >= minConfirmations

TxCondition(transfer, minConfirmations) ==
  LET status == Get(transfer, "status")
  IN  \/ status = "confirmed"
      \/ status = "complete"
      \/ Confirmations(transfer) >= minConfirmations

\* A variant that also takes an expired invoice for a final one.
LightningCondition_Final(invoice) ==
  LET status == Get(invoice, "status")
  IN  status = "paid" \/ status = "settled" \/ status = "completed"
        \/ status = "expired"

LightningCondition(invoice) ==
  LET status == Get(invoice, "status")
  IN  status = "paid" \/ status = "settled" \/ status = "completed"

KycCondition(identity) ==
  LET status == Or(Get(identity, "status"), Get(identity, "verificationStatus"))
  IN  status = "approved" \/ status = "verified" \/ status = "complete"

\* The predicate wrapper f, called with arguments a, hands to pollUntil.
WrapperCondition(f, a, r) ==
  CASE f = "waitForBankAccountVerification" -> BankCondition(r)
    [] f = "waitForAchDebitCompletion" -> AchCondition(r)
    [] f = "waitForOrderFill" -> OrderCondition(r)
    [] f = "waitForTransactionConfirmation" ->
         TxCondition(r, Param(a, "minConfirmations", TxMinConfirmations))
    [] f = "waitForLightningInvoicePaid" -> LightningCondition(r)
    [] f = "waitForKycApproval" -> KycCondition(r)

\* condition(result) of the call in progress
ConditionHolds(r) ==
  IF fn = "pollUntil"
  THEN CallerCondition(condition, r)
  ELSE WrapperCondition(fn, args, r)

ConditionThrows(r) == fn = "pollUntil" /\ CallerConditionThrows(condition, r)

\* ------------------------------------------------------- the wrappers
\* The options object each wrapper hands to pollUntil.
WrapperOptions(f, a) ==
  CASE f = "waitForBankAccountVerification" ->
         LET mw == Param(a, "maxWait", BankMaxWait)
         IN  [maxWait |-> mw, pollInterval |-> BankPollInterval,
              timeoutMessage |-> <<"Bank account ", a.bankAccountId,
                                   " not verified after ", ToString(mw), "ms">>]
    [] f = "waitForAchDebitCompletion" ->
         [maxWait |-> Param(a, "maxWait", AchMaxWait),
          pollInterval |-> AchPollInterval,
          timeoutMessage |-> <<"ACH debit not completed in time">>]
    [] f = "waitForOrderFill" ->
         [maxWait |-> Param(a, "maxWait", OrderMaxWait),
          pollInterval |-> OrderPollInterval,
          timeoutMessage |-> <<"Order not filled in time">>]
    [] f = "waitForTransactionConfirmation" ->
         LET mw == Param(a, "maxWait", TxMaxWait)
         IN  [maxWait |-> mw, pollInterval |-> TxPollInterval,
              timeoutMessage |-> <<"Transaction not confirmed after ",
                                   ToString(mw), "ms">>]
    [] f = "waitForLightningInvoicePaid" ->
         [maxWait |-> Param(a, "maxWait", LightningMaxWait),
          pollInterval |-> LightningPollInterval,
          timeoutMessage |-> <<"Lightning invoice not paid in time">>]
    [] f = "waitForKycApproval" ->
         [maxWait |-> Param(a, "maxWait", KycMaxWait),
          pollInterval |-> KycPollInterval,
          timeoutMessage |-> <<"KYC identity not approved in time">>]

\* ------------------------------------------------ the timeout error
KeyOrder == <<"status", "verificationState", "verificationStatus",
              "confirmations", "filledQuantity", "id", "error">>

JsonValue(k, v) == IF k = "confirmations" THEN ToString(v) ELSE Quote(v)

RECURSIVE JsonMembers(_, _, _)
JsonMembers(r, i, first) ==
  IF i > Len(KeyOrder) THEN <<>>
  ELSE LET k == KeyOrder[i]
       IN  IF Has(r, k)
           THEN (IF first THEN <<>> ELSE <<",">>)
                  \o <<"\n  ", Quote(k), ": ", JsonValue(k, r[k])>>
                  \o JsonMembers(r, i + 1, FALSE)
           ELSE JsonMembers(r, i + 1, first)

\* A variant that prints the object itself: `${v}`.
JsonStringify_ToString(v) ==
  IF v = undefined THEN <<"undefined">> ELSE <<"[object Object]">>

\* `${JSON.stringify(v, null, 2)}`: JSON.stringify(undefined) is undefined,
\* which the template prints as the word undefined.
JsonStringify(v) ==
  IF v = undefined THEN <<"undefined">>
  ELSE IF DOMAIN v = {} THEN <<"{}">>
  ELSE <<"{">> \o JsonMembers(v, 1, TRUE) \o <<"\n", "}">>

DefaultTimeoutMsg ==
  <<"pollUntil: condition not met after ", ToString(maxWait), "ms (",
    ToString(attempts), " attempts)">>

\* A variant with ?? in place of ||: an empty custom message is kept.
timeoutMsg_Nullish ==
  IF Has(options, "timeoutMessage")
  THEN options.timeoutMessage
  ELSE DefaultTimeoutMsg

\* options.timeoutMessage || `pollUntil: condition not met after ...`
timeoutMsg ==
  IF Has(options, "timeoutMessage") /\ options.timeoutMessage # <<>>
  THEN options.timeoutMessage
  ELSE DefaultTimeoutMsg

TimeoutError ==
  [origin |-> "timeout",
   message |-> timeoutMsg \o <<"\nLast result: ">> \o JsonStringify(lastResult)]

NoError == [origin |-> "none", message |-> <<>>]

\* ------------------------------------------------------------ actions
PollInit ==
  /\ fn \in Fns
  /\ IF fn = "pollUntil"
     THEN /\ args = Nothing
          /\ options \in PollOptions
          /\ condition \in Conditions
     ELSE /\ args \in WrapperArgs(fn)
          /\ options = WrapperOptions(fn, args)
          /\ condition = [accept |-> {}, strict |-> FALSE]
  /\ startTime = 0
  /\ now = startTime
  /\ lastResult = undefined
  /\ attempts = 0
  /\ pc = "loop"
  /\ result = undefined
  /\ error = NoError
  /\ sleeps = 0
  /\ nFail = 0
  /\ nSlow = 0
  /\ lastLatency = 0

\* The awaited accessor takes lat milliseconds.
Elapse(lat) ==
  /\ lat = 0 \/ nSlow < MaxSlow
  /\ nSlow' = IF lat = 0 THEN nSlow ELSE nSlow + 1
  /\ now' = now + lat
  /\ lastLatency' = lat

\* A variant that starts the next attempt while the sleep is still running.
Invoke_Speculative ==
  /\ pc \in {"loop", "sleep"}
  /\ WithinDeadline
  /\ attempts' = attempts + 1
  /\ pc' = "await"
  /\ UNCHANGED <<predicateCall, retryCall, requestCall,
                 toolCall, cleanupCall, concurrentCalls,
                 fn, args, options, condition, startTime, now, lastResult,
                 result, error, sleeps, nFail, nSlow, lastLatency>>

\* while (Date.now() - startTime < maxWait) { attempts++; ... await fn()
Invoke ==
  /\ pc = "loop"
  /\ WithinDeadline
  /\ attempts' = attempts + 1
  /\ pc' = "await"
  /\ UNCHANGED <<predicateCall, retryCall, requestCall,
                 toolCall, cleanupCall, concurrentCalls,
                 fn, args, options, condition, startTime, now, lastResult,
                 result, error, sleeps, nFail, nSlow, lastLatency>>

\* A variant of the loop body that sleeps before it looks at the result.
FnResolves_SleepFirst(r, lat) ==
  /\ pc = "await"
  /\ lat = 0 \/ nSlow < MaxSlow
  /\ nSlow' = IF lat = 0 THEN nSlow ELSE nSlow + 1
  /\ lastLatency' = lat
  /\ now' = now + lat + pollInterval
  /\ sleeps' = sleeps + 1
  /\ lastResult' = r
  /\ IF ~ConditionThrows(r) /\ ConditionHolds(r)
     THEN pc' = "returned" /\ result' = r
     ELSE pc' = "loop" /\ UNCHANGED result
  /\ UNCHANGED <<predicateCall, retryCall, requestCall,
                 toolCall, cleanupCall, concurrentCalls,
                 fn, args, options, condition, startTime, attempts, error,
                 nFail>>

\* A variant that returns a satisfying result only when it is seen twice.
FnResolves_Confirm(r, lat) ==
  /\ pc = "await"
  /\ Elapse(lat)
  /\ lastResult' = r
  /\ IF ~ConditionThrows(r) /\ ConditionHolds(r) /\ lastResult = r
     THEN pc' = "returned" /\ result' = r
     ELSE pc' = "sleep" /\ UNCHANGED result
  /\ UNCHANGED <<predicateCall, retryCall, requestCall,
                 toolCall, cleanupCall, concurrentCalls,
                 fn, args, options, condition, startTime, attempts, error,
                 sleeps, nFail>>

\* A variant that looks at the deadline again when the accessor resolves.
FnResolves_DeadlineAfter(r, lat) ==
  /\ pc = "await"
  /\ Elapse(lat)
  /\ lastResult' = r
  /\ IF now + lat - startTime >= maxWait
     THEN pc' = "loop" /\ UNCHANGED result
     ELSE IF ~ConditionThrows(r) /\ ConditionHolds(r)
          THEN pc' = "returned" /\ result' = r
          ELSE pc' = "sleep" /\ UNCHANGED result
  /\ UNCHANGED <<predicateCall, retryCall, requestCall,
                 toolCall, cleanupCall, concurrentCalls,
                 fn, args, options, condition, startTime, attempts, error,
                 sleeps, nFail>>

\* try { const result = await fn(); lastResult = result;
\*       if (condition(result)) return result; } catch (error) { log }
\* The call of condition is inside the try block: an exception it throws
\* is caught like a failure of the accessor and the loop goes on to sleep.
FnResolves(r, lat) ==
  /\ pc = "await"
  /\ Elapse(lat)
  /\ lastResult' = r
  /\ IF ~ConditionThrows(r) /\ ConditionHolds(r)
     THEN pc' = "returned" /\ result' = r
     ELSE pc' = "sleep" /\ UNCHANGED result
  /\ UNCHANGED <<predicateCall, retryCall, requestCall,
                 toolCall, cleanupCall, concurrentCalls,
                 fn, args, options, condition, startTime, attempts, error,
                 sleeps, nFail>>

\* Variants of the catch block: one that leaves the loop, one that rethrows.
FnRejects_Break(lat) ==
  /\ pc = "await"
  /\ nFail < MaxFail
  /\ Elapse(lat)
  /\ nFail' = nFail + 1
  /\ pc' = "threw"
  /\ error' = TimeoutError
  /\ UNCHANGED <<predicateCall, retryCall, requestCall,
                 toolCall, cleanupCall, concurrentCalls,
                 fn, args, options, condition, startTime, lastResult,
                 attempts, result, sleeps>>

FnRejects_Rethrow(lat) ==
  /\ pc = "await"
  /\ nFail < MaxFail
  /\ Elapse(lat)
  /\ nFail' = nFail + 1
  /\ pc' = "threw"
  /\ error' = [origin |-> "fn", message |-> <<"Magnolia API error: 404">>]
  /\ UNCHANGED <<predicateCall, retryCall, requestCall,
                 toolCall, cleanupCall, concurrentCalls,
                 fn, args, options, condition, startTime, lastResult,
                 attempts, result, sleeps>>

\* A variant of the catch block that goes on to the next attempt at once.
FnRejects_NoSleep(lat) ==
  /\ pc = "await"
  /\ nFail < MaxFail
  /\ Elapse(lat)
  /\ nFail' = nFail + 1
  /\ pc' = "loop"
  /\ UNCHANGED <<predicateCall, retryCall, requestCall,
                 toolCall, cleanupCall, concurrentCalls,
                 fn, args, options, condition, startTime, lastResult,
                 attempts, result, error, sleeps>>

\* A variant of the catch block that forgets the last result.
FnRejects_ClearSnapshot(lat) ==
  /\ pc = "await"
  /\ nFail < MaxFail
  /\ Elapse(lat)
  /\ nFail' = nFail + 1
  /\ pc' = "sleep"
  /\ lastResult' = undefined
  /\ UNCHANGED <<predicateCall, retryCall, requestCall,
                 toolCall, cleanupCall, concurrentCalls,
                 fn, args, options, condition, startTime,
                 attempts, result, error, sleeps>>

\* catch (error) { console.log(...) }
FnRejects(lat) ==
  /\ pc = "await"
  /\ nFail < MaxFail
  /\ Elapse(lat)
  /\ nFail' = nFail + 1
  /\ pc' = "sleep"
  /\ UNCHANGED <<predicateCall, retryCall, requestCall,
                 toolCall, cleanupCall, concurrentCalls,
                 fn, args, options, condition, startTime, lastResult,
                 attempts, result, error, sleeps>>

\* await new Promise((resolve) => setTimeout(resolve, pollInterval));
Sleep ==
  /\ pc = "sleep"
  /\ now' = now + pollInterval
  /\ sleeps' = sleeps + 1
  /\ pc' = "loop"
  /\ UNCHANGED <<predicateCall, retryCall, requestCall,
                 toolCall, cleanupCall, concurrentCalls,
                 fn, args, options, condition, startTime, lastResult,
                 attempts, result, error, nFail, nSlow, lastLatency>>

\* A variant that makes one more attempt, without success, when the
\* deadline has passed.
Timeout_FinalCheck ==
  /\ pc = "loop"
  /\ ~WithinDeadline
  /\ attempts' = attempts + 1
  /\ pc' = "threw"
  /\ error' = TimeoutError
  /\ UNCHANGED <<predicateCall, retryCall, requestCall,
                 toolCall, cleanupCall, concurrentCalls,
                 fn, args, options, condition, startTime, now, lastResult,
                 result, sleeps, nFail, nSlow, lastLatency>>

\* The loop ends: throw new Error(`${timeoutMsg}\nLast result: ...`)
Timeout ==
  /\ pc = "loop"
  /\ ~WithinDeadline
  /\ pc' = "threw"
  /\ error' = TimeoutError
  /\ UNCHANGED <<predicateCall, retryCall, requestCall,
                 toolCall, cleanupCall, concurrentCalls,
                 fn, args, options, condition, startTime, now, lastResult,
                 attempts, result, sleeps, nFail, nSlow, lastLatency>>

\* No call of pollUntil or of a wrapper in the behaviour at hand.
PollIdle ==
  /\ fn = "none" /\ args = Nothing /\ options = Nothing
  /\ condition = [accept |-> {}, strict |-> FALSE]
  /\ startTime = 0 /\ now = 0 /\ lastResult = undefined /\ attempts = 0
  /\ pc = "idle" /\ result = undefined /\ error = NoError
  /\ sleeps = 0 /\ nFail = 0 /\ nSlow = 0 /\ lastLatency = 0

\* One call of pollUntil or of a wrapper.
Init ==
  /\ PollInit
  /\ predicateCall = Idle /\ retryCall = Idle /\ requestCall = Idle
  /\ NoOtherCall

Next ==
  \/ Invoke
  \/ \E r \in ResultsFor(fn), lat \in Latencies : FnResolves(r, lat)
  \/ \E lat \in Latencies : FnRejects(lat)
  \/ Sleep
  \/ Timeout

Spec == Init /\ [][Next]_vars

\* A variant in which waitForAchDebitCompletion too awaits without return.
WrapperReturn_NoReturn ==
  IF fn \in {"waitForBankAccountVerification", "waitForAchDebitCompletion"}
  THEN undefined
  ELSE result

\* What the function called resolves with: pollUntil and five wrappers
\* return the result; waitForBankAccountVerification awaits pollUntil and
\* returns nothing.
WrapperReturn ==
  IF fn = "waitForBankAccountVerification" THEN undefined ELSE result

TimedOut == pc = "threw" /\ error.origin = "timeout"
Returned == pc = "returned"
Elapsed == now - startTime
\* The predicate threw on the result observed last.
PredicateThrew == lastResult # undefined /\ ConditionThrows(lastResult)
\* The predicate is true on the result observed last.
Satisfied ==
  lastResult # undefined /\ ~ConditionThrows(lastResult)
    /\ ConditionHolds(lastResult)

\* ------------------------------------- the wrappers' predicates alone
Wrappers == Fns \ {"pollUntil"}

Statuses ==
  {"verified", "approved", "completed", "settled", "done", "filled", "paid",
   "complete", "confirmed", "pending", "open", "failed", "rejected",
   "expired", "cancelled", "FILLED", ""}

StatusKeys == {"status", "verificationState", "verificationStatus"}

\* Results the predicates are tried on: one status under one key; two keys
\* with a present, possibly empty, value each; confirmation counts with and
\* without a status; the empty object.
Probes ==
  LET few == {"", "pending", "verified", "approved"}
  IN  {k :> v : k \in StatusKeys, v \in Statuses}
        \cup {[verificationState |-> a, status |-> b] : a \in few, b \in few}
        \cup {[status |-> a, verificationStatus |-> b] : a \in few, b \in few}
        \cup {[confirmations |-> c] : c \in 0..2}
        \cup {[status |-> v, confirmations |-> c] :
                v \in {"pending", "confirmed", "complete"}, c \in 0..2}
        \cup {Nothing}

PredicateArgs(f) ==
  IF f = "waitForTransactionConfirmation"
  THEN {Nothing} \cup {[minConfirmations |-> c] : c \in {-1, 0, 1, 2}}
  ELSE {Nothing}

PredicateInit ==
  /\ PollIdle /\ NoOtherCall
  /\ retryCall = Idle /\ requestCall = Idle
  /\ \E f \in Wrappers : \E a \in PredicateArgs(f), r \in Probes :
       predicateCall = [pc |-> "call", fn |-> f, args |-> a, probe |-> r]

\* condition(result) for the result at hand
Evaluate ==
  /\ predicateCall.pc = "call"
  /\ predicateCall' =
       [pc |-> "done", fn |-> predicateCall.fn, args |-> predicateCall.args,
        probe |-> predicateCall.probe,
        verdict |-> WrapperCondition(predicateCall.fn, predicateCall.args,
                                     predicateCall.probe)]
  /\ UNCHANGED <<pollVars, toolCall, cleanupCall, concurrentCalls, retryCall, requestCall>>

PredicateNext == Evaluate

PredicateSpec == PredicateInit /\ [][PredicateNext]_vars

Evaluated == predicateCall.pc = "done"

\* ------------------------------------------------------------- claims

\* C1: accessor failures are tolerated.  No failure of the accessor is ever
\* surfaced to the caller, a call that saw failures leaves the loop only at
\* the deadline, and a result that satisfies the predicate is returned
\* however many failures came before it.
C1_AccessorFailureTolerance ==
  /\ error.origin # "fn"
  /\ (pc = "threw" /\ nFail > 0) => (TimedOut /\ Elapsed >= maxWait)
  /\ Satisfied => (Returned /\ result = lastResult)

C1_Witness ==
  Returned /\ nFail = 2 /\ attempts = 3 /\ result = lastResult
    /\ Elapsed < maxWait

\* C2 as stated: with maxWait < pollInterval the accessor is never invoked.
C2_ZeroInvocations ==
  (pollInterval > 0 /\ maxWait < pollInterval) => attempts = 0

\* C2 amended: with maxWait < pollInterval the accessor is invoked once when
\* maxWait > 0 (the deadline is checked before the attempt, at elapsed 0), and
\* the call times out after that one attempt and one sleep; only a negative
\* maxWait gives zero invocations and an immediate timeout.
C2_AtMostOneInvocation ==
  (pollInterval > 0 /\ maxWait < pollInterval) =>
    IF maxWait > 0
    THEN /\ attempts <= 1
         /\ attempts = 0 => (pc = "loop" /\ ENABLED Invoke /\ ~ENABLED Timeout)
         /\ TimedOut => (attempts = 1 /\ sleeps = 1)
    ELSE /\ attempts = 0 /\ sleeps = 0 /\ now = startTime
         /\ pc \in {"loop", "threw"}
         /\ pc = "loop" => (ENABLED Timeout /\ ~ENABLED Invoke)

C2_Witness ==
  TimedOut /\ maxWait = 500 /\ pollInterval = 1000 /\ attempts = 1

\* C3: when the predicate is true on the first result of the accessor, the
\* call returns that result after exactly one invocation and no sleep.
C3_FirstResultReturned ==
  (attempts = 1 /\ pc # "await" /\ Satisfied) =>
    /\ Returned /\ result = lastResult
    /\ sleeps = 0
    /\ Elapsed = lastLatency
    /\ ~ENABLED Next

C3_Witness ==
  Returned /\ attempts = 1 /\ nFail = 0 /\ sleeps = 0 /\ now = startTime

\* C4: the only failure a caller observes is the timeout error.  A call that
\* has thrown has thrown the timeout error, after the deadline, whatever the
\* accessor did; no accessor failure is propagated.
C4_OnlyTimeoutFailure ==
  /\ pc = "threw" =>
       /\ error.origin = "timeout"
       /\ Contains(error.message, "\nLast result: ")
       /\ ~Satisfied
  /\ error.origin \in {"none", "timeout"}

C4_Witness ==
  TimedOut /\ nFail >= 1 /\ lastResult # undefined /\ attempts >= 3
    /\ fn # "pollUntil"

\* C5 as stated: a call that times out does so no later than
\* maxWait + pollInterval after it started.
C5_BoundedWait ==
  TimedOut => Elapsed <= maxWait + pollInterval

\* C5 amended: a call that times out after at least one attempt does so less
\* than maxWait + pollInterval + the duration of its last accessor invocation
\* after it started (every attempt starts before the deadline and is followed
\* by one sleep); a call that makes no attempt times out at once.
C5_BoundedWaitPlusLatency ==
  TimedOut =>
    IF attempts > 0
    THEN Elapsed < maxWait + lastLatency + pollInterval
    ELSE now = startTime

C5_Witness ==
  TimedOut /\ lastLatency > 0 /\ Elapsed > maxWait + pollInterval

\* C6 as stated: a predicate that throws is not treated as a transient
\* failure; its exception reaches the caller at once and the loop ends.
C6_PredicateThrowPropagates ==
  PredicateThrew => (pc = "threw" /\ error.origin = "condition")

\* The message of the timeout error has the snapshot of the last result.
SnapshotIn(message, r) ==
  \A k \in DOMAIN r :
    /\ Contains(message, Quote(k))
    /\ Contains(message,
                IF k = "confirmations" THEN ToString(r[k]) ELSE Quote(r[k]))

CustomMessageGiven ==
  Has(options, "timeoutMessage") /\ options.timeoutMessage # <<>>

C8_SnapshotAndCustomMessage ==
  (TimedOut /\ lastResult # undefined) =>
    /\ SnapshotIn(error.message, lastResult)
    /\ Has(lastResult, "status") =>
         Contains(error.message, "\"" \o lastResult.status \o "\"")
    /\ Has(options, "timeoutMessage") =>
         ContainsText(error.message, options.timeoutMessage)

C8_Witness ==
  /\ TimedOut /\ fn = "pollUntil"
  /\ lastResult = [status |-> "pending"]
  /\ Has(options, "timeoutMessage") /\ options.timeoutMessage = CustomMessage
  /\ Contains(error.message, "\"pending\"")
  /\ Contains(error.message, "Invoice did not reach final state")

\* C9: waitForOrderFill polls every 2 s and returns the first result of the
\* accessor whose status is filled, done or settled, and no other result.
C9_OrderFill ==
  fn = "waitForOrderFill" =>
    /\ pollInterval = 2000
    /\ (lastResult # undefined
          /\ Get(lastResult, "status") \in {"filled", "done", "settled"})
         => (Returned /\ WrapperReturn = lastResult)
    /\ Returned =>
         /\ WrapperReturn = lastResult
         /\ Get(WrapperReturn, "status") \in {"filled", "done", "settled"}
    /\ (pc = "await" /\ nSlow = 0) => Elapsed = 2000 * (attempts - 1)

\* open, open, filled with maxWait = 10000: the third result, after three
\* invocations 2 s apart.
C9_Witness ==
  /\ fn = "waitForOrderFill" /\ Returned
  /\ Has(args, "maxWait") /\ args.maxWait = 10000
  /\ attempts = 3 /\ nFail = 0 /\ sleeps = 2 /\ Elapsed = 4000
  /\ WrapperReturn = [status |-> "filled", filledQuantity |-> "0.001"]

\* C10: waitForTransactionConfirmation returns the first result of the
\* accessor whose confirmations field is at least minConfirmations, whatever
\* its status, and the first whose status is confirmed or complete.
C10_ConfirmationThreshold ==
  fn = "waitForTransactionConfirmation" =>
    LET min == IF Has(args, "minConfirmations")
               THEN args.minConfirmations ELSE 1
    IN  /\ (lastResult # undefined /\ Has(lastResult, "confirmations")
              /\ lastResult.confirmations >= min)
             => (Returned /\ WrapperReturn = lastResult)
        /\ (lastResult # undefined
              /\ Get(lastResult, "status") \in {"confirmed", "complete"})
             => (Returned /\ WrapperReturn = lastResult)
        /\ Returned => WrapperReturn = lastResult

\* {confirmations: 0} then {confirmations: 1} with minConfirmations = 1:
\* returned on the second call.
C10_Witness ==
  /\ fn = "waitForTransactionConfirmation" /\ Returned
  /\ Has(args, "minConfirmations") /\ args.minConfirmations = 1
  /\ attempts = 2 /\ nFail = 0
  /\ WrapperReturn = [confirmations |-> 1]

\* The terminal states of the table of wrappers.
TerminalStates(f) ==
  CASE f = "waitForBankAccountVerification" -> {"verified", "approved"}
    [] f = "waitForAchDebitCompletion" -> {"completed", "settled", "done"}
    [] f = "waitForOrderFill" -> {"filled", "done", "settled"}
    [] f = "waitForLightningInvoicePaid" -> {"paid", "settled", "completed"}
    [] f = "waitForKycApproval" -> {"approved", "verified", "complete"}
    [] OTHER -> {}

\* The keys under which wrapper f reads the status.
KeysRead(f) ==
  CASE f = "waitForBankAccountVerification" -> {"verificationState", "status"}
    [] f = "waitForKycApproval" -> {"status", "verificationStatus"}
    [] OTHER -> {"status"}

\* C11: on a result that carries one status, under a key the wrapper reads,
\* the predicate of each of the five status wrappers is true exactly when
\* that status is a terminal state of the table; every other status value
\* keeps the wrapper polling.
C11_TerminalStates ==
  (/\ Evaluated
   /\ predicateCall.fn # "waitForTransactionConfirmation"
   /\ \E k \in KeysRead(predicateCall.fn) : DOMAIN predicateCall.probe = {k})
  => LET k == CHOOSE k \in DOMAIN predicateCall.probe : TRUE
     IN  predicateCall.verdict
           <=> predicateCall.probe[k] \in TerminalStates(predicateCall.fn)

C11_Witness ==
  /\ Evaluated /\ predicateCall.fn = "waitForLightningInvoicePaid"
  /\ predicateCall.probe = [status |-> "expired"]
  /\ ~predicateCall.verdict

\* C12 as stated: the first key that is present in the result decides; a
\* later key is read only when every earlier key is absent.
C12_FirstPresentKey ==
  Evaluated =>
    LET r == predicateCall.probe
        f == predicateCall.fn
    IN  /\ f = "waitForBankAccountVerification" =>
             (predicateCall.verdict <=>
                (IF Has(r, "verificationState") THEN r.verificationState
                 ELSE Get(r, "status")) \in TerminalStates(f))
        /\ f = "waitForKycApproval" =>
             (predicateCall.verdict <=>
                (IF Has(r, "status") THEN r.status
                 ELSE Get(r, "verificationStatus")) \in TerminalStates(f))

\* C12 amended: the keys are read in the fixed order and the first key whose
\* value is present and not empty (truthy) decides; a later key is read when
\* every earlier key is absent or holds an empty value.
C12_FirstTruthyKey ==
  Evaluated =>
    LET r == predicateCall.probe
        f == predicateCall.fn
        given(k) == Has(r, k) /\ r[k] # ""
    IN  /\ f = "waitForBankAccountVerification" =>
             (predicateCall.verdict <=>
                (IF given("verificationState") THEN r.verificationState
                 ELSE Get(r, "status")) \in TerminalStates(f))
        /\ f = "waitForKycApproval" =>
             (predicateCall.verdict <=>
                (IF given("status") THEN r.status
                 ELSE Get(r, "verificationStatus")) \in TerminalStates(f))

C12_Witness ==
  /\ Evaluated /\ predicateCall.fn = "waitForBankAccountVerification"
  /\ predicateCall.probe = [verificationState |-> "", status |-> "verified"]
  /\ predicateCall.verdict

\* C13 as stated: each of the six wrappers resolves, on success, with the
\* result of the accessor that satisfied its predicate.
C13_EveryWrapperReturnsResult ==
  (Returned /\ fn \in Wrappers) =>
    (WrapperReturn # undefined /\ WrapperReturn = lastResult)

\* C13 amended: five wrappers resolve with the result that satisfied their
\* predicate; waitForBankAccountVerification resolves with no value.
C13_FiveWrappersReturnResult ==
  (Returned /\ fn \in Wrappers) =>
    IF fn = "waitForBankAccountVerification"
    THEN WrapperReturn = undefined /\ lastResult # undefined
    ELSE /\ WrapperReturn # undefined
         /\ WrapperReturn = lastResult
         /\ WrapperCondition(fn, args, WrapperReturn)

C13_Witness ==
  /\ Returned /\ fn = "waitForBankAccountVerification"
  /\ lastResult = [verificationState |-> "verified"]
  /\ WrapperReturn = undefined

\* C17 as stated: with {timeout: T} and no maxWait, pollUntil waits at most
\* T: no attempt starts once T has elapsed.
C17_TimeoutAlias ==
  (Has(options, "timeout") /\ ~Has(options, "maxWait") /\ pc = "await")
    => Elapsed < options.timeout

\* C19: every iteration that does not return sleeps pollInterval once, after
\* a failure of the accessor as after a result that does not satisfy the
\* predicate, before the deadline is looked at again; an attempt starts only
\* when every earlier attempt was followed by its sleep.
C19_UnconditionalSleep ==
  /\ [](pc = "await" =>
          (sleeps = attempts - 1 /\ Elapsed >= (attempts - 1) * pollInterval))
  /\ [][/\ (pc = "await" /\ pc' # "returned") => pc' = "sleep"
        /\ pc = "sleep" =>
             /\ pc' = "loop"
             /\ now' = now + pollInterval
             /\ sleeps' = sleeps + 1
             /\ attempts' = attempts
        /\ attempts' # attempts =>
             (pc = "loop" /\ sleeps = attempts /\ attempts' = attempts + 1)
       ]_vars

C19_Witness ==
  /\ pc = "await" /\ attempts = 3 /\ sleeps = 2 /\ nFail = 1
  /\ lastResult # undefined
  /\ Elapsed = 2 * pollInterval

\* ---------------------------------------------------------------------
\* retry(fn, options): retry with exponential backoff.

DefaultMaxAttempts == 3
DefaultInitialDelay == 1000
DefaultMaxDelay == 10000
DefaultBackoffFactor == 2

RECURSIVE Pow(_, _)
\* Math.pow(b, n) for a non-negative integer exponent.
Pow(b, n) == IF n = 0 THEN 1 ELSE b * Pow(b, n - 1)

\* Math.min(a, b)
Min(a, b) == IF a <= b THEN a ELSE b

\* The options objects callers of retry pass.
RetryOptions ==
  { a @@ i @@ d @@ b :
      a \in {Nothing} \cup {[maxAttempts |-> n] : n \in {0, 1, 2, 7}},
      i \in {Nothing} \cup {[initialDelay |-> n] : n \in {0, 500}},
      d \in {Nothing} \cup {[maxDelay |-> n] : n \in {0, 3000}},
      b \in {Nothing} \cup {[backoffFactor |-> n] : n \in {0, 3}} }

\* What fn may reject with: Error objects and a thrown string.
Rejections ==
  {[instanceofError |-> TRUE, message |-> "ECONNRESET", string |-> "Error: ECONNRESET"],
   [instanceofError |-> TRUE, message |-> "rate limited", string |-> "Error: rate limited"],
   [instanceofError |-> FALSE, message |-> NoProp, string |-> "boom"]}

\* What fn may resolve with.
RetryValues == {[id |-> "w1"], Nothing}


\* const maxAttempts = options.maxAttempts || 3
RetryMaxAttempts(o) == NumOr(o, "maxAttempts", DefaultMaxAttempts)
\* const initialDelay = options.initialDelay || 1000
RetryInitialDelay(o) == NumOr(o, "initialDelay", DefaultInitialDelay)
\* const maxDelay = options.maxDelay || 10000
RetryMaxDelay(o) == NumOr(o, "maxDelay", DefaultMaxDelay)
\* const backoffFactor = options.backoffFactor || 2
RetryBackoffFactor(o) == NumOr(o, "backoffFactor", DefaultBackoffFactor)

\* A variant of the delay whose exponent is the attempt number.
RetryDelay_ExponentAttempt(o, attempt) ==
  Min(RetryInitialDelay(o) * Pow(RetryBackoffFactor(o), attempt),
      RetryMaxDelay(o))

\* Math.min(initialDelay * Math.pow(backoffFactor, attempt - 1), maxDelay)
RetryDelay(o, attempt) ==
  Min(RetryInitialDelay(o) * Pow(RetryBackoffFactor(o), attempt - 1),
      RetryMaxDelay(o))

\* lastError instanceof Error ? lastError.message : String(lastError)
ErrorText(e) ==
  IF e = undefined THEN "undefined"
  ELSE IF e.instanceofError THEN e.message ELSE e.string

\* `Failed after ${maxAttempts} attempts: ${...}`
RetryError(o, e) ==
  <<"Failed after ", ToString(RetryMaxAttempts(o)), " attempts: ", ErrorText(e)>>

\* A call of retry in progress: the constants are fixed from the options,
\* attempt is the loop variable; calls, delays and failures record what the
\* call has done so far.
RetryStart(o) ==
  [pc |-> "loop", options |-> o, attempt |-> 1, lastError |-> undefined,
   calls |-> 0, delays |-> <<>>, failures |-> <<>>,
   result |-> undefined, error |-> <<>>]

RetryInit ==
  /\ PollIdle /\ NoOtherCall
  /\ predicateCall = Idle
  /\ requestCall = Idle
  /\ \E o \in RetryOptions : retryCall = RetryStart(o)

\* for (...; attempt <= maxAttempts; ...) { try { ... await fn()
RetryInvoke ==
  /\ retryCall.pc = "loop"
  /\ retryCall.attempt <= RetryMaxAttempts(retryCall.options)
  /\ retryCall' = [retryCall EXCEPT !.pc = "await", !.calls = @ + 1]
  /\ UNCHANGED <<pollVars, toolCall, cleanupCall, concurrentCalls, predicateCall, requestCall>>

\* A variant that stores the value and goes on with the loop.
RetryResolves_Continue(v) ==
  /\ retryCall.pc = "await"
  /\ retryCall' = [retryCall EXCEPT !.pc = "sleep", !.result = v]
  /\ UNCHANGED <<pollVars, toolCall, cleanupCall, concurrentCalls, predicateCall, requestCall>>

\* return await fn()
RetryResolves(v) ==
  /\ retryCall.pc = "await"
  /\ retryCall' = [retryCall EXCEPT !.pc = "returned", !.result = v]
  /\ UNCHANGED <<pollVars, toolCall, cleanupCall, concurrentCalls, predicateCall, requestCall>>

\* A variant of the catch block that keeps the first error.
RetryRejects_KeepFirst(e) ==
  /\ retryCall.pc = "await"
  /\ retryCall' =
       [retryCall EXCEPT
          !.lastError = IF @ = undefined THEN e ELSE @,
          !.failures = Append(@, e),
          !.pc = IF retryCall.attempt = RetryMaxAttempts(retryCall.options)
                 THEN "break" ELSE "sleep"]
  /\ UNCHANGED <<pollVars, toolCall, cleanupCall, concurrentCalls, predicateCall, requestCall>>

\* A variant of the catch block without the break on the last attempt.
RetryRejects_NoBreak(e) ==
  /\ retryCall.pc = "await"
  /\ retryCall' =
       [retryCall EXCEPT
          !.lastError = e, !.failures = Append(@, e), !.pc = "sleep"]
  /\ UNCHANGED <<pollVars, toolCall, cleanupCall, concurrentCalls, predicateCall, requestCall>>

\* catch (error) { lastError = error; if (attempt === maxAttempts) break;
RetryRejects(e) ==
  /\ retryCall.pc = "await"
  /\ retryCall' =
       [retryCall EXCEPT
          !.lastError = e,
          !.failures = Append(@, e),
          !.pc = IF retryCall.attempt = RetryMaxAttempts(retryCall.options)
                 THEN "break" ELSE "sleep"]
  /\ UNCHANGED <<pollVars, toolCall, cleanupCall, concurrentCalls, predicateCall, requestCall>>

\* const delay = ...; await sleep(delay); then attempt++
RetrySleep ==
  /\ retryCall.pc = "sleep"
  /\ retryCall' =
       [retryCall EXCEPT
          !.delays = Append(@, RetryDelay(retryCall.options, retryCall.attempt)),
          !.attempt = @ + 1,
          !.pc = "loop"]
  /\ UNCHANGED <<pollVars, toolCall, cleanupCall, concurrentCalls, predicateCall, requestCall>>

\* throw new Error(`Failed after ...`), reached by the break or by the
\* loop condition.
RetryThrow ==
  /\ \/ retryCall.pc = "break"
     \/ /\ retryCall.pc = "loop"
        /\ retryCall.attempt > RetryMaxAttempts(retryCall.options)
  /\ retryCall' =
       [retryCall EXCEPT
          !.pc = "threw",
          !.error = RetryError(retryCall.options, retryCall.lastError)]
  /\ UNCHANGED <<pollVars, toolCall, cleanupCall, concurrentCalls, predicateCall, requestCall>>

RetryResolvesSome == \E v \in RetryValues : RetryResolves(v)
RetryRejectsSome == \E e \in Rejections : RetryRejects(e)

RetryNext ==
  \/ RetryInvoke
  \/ RetryResolvesSome
  \/ RetryRejectsSome
  \/ RetrySleep
  \/ RetryThrow

RetrySpec == RetryInit /\ [][RetryNext]_vars

RetryReturned == retryCall.pc = "returned"
RetryExhausted == retryCall.pc = "threw"

\* The value of a RetryConfig member: the option when it is given (a
\* positive number), its default otherwise.
ConfigOf(o, k, dflt) == IF Has(o, k) /\ o[k] > 0 THEN o[k] ELSE dflt

\* C14: retry invokes the operation at most maxAttempts times, and the first
\* successful invocation ends it: the value is returned at once, each
\* earlier invocation having failed and been followed by one sleep.
C14_AtMostMaxAttempts ==
  retryCall.pc # "idle" =>
    LET n == ConfigOf(retryCall.options, "maxAttempts", 3)
    IN  /\ retryCall.calls <= n
        /\ retryCall.result # undefined => RetryReturned
        /\ RetryReturned =>
             /\ retryCall.result \in RetryValues
             /\ retryCall.calls = Len(retryCall.failures) + 1
             /\ Len(retryCall.delays) = Len(retryCall.failures)
             /\ retryCall.error = <<>>

C14_Witness ==
  /\ RetryReturned
  /\ retryCall.calls = 3 /\ Len(retryCall.delays) = 2
  /\ ConfigOf(retryCall.options, "maxAttempts", 3) = 7
  /\ retryCall.result = [id |-> "w1"]

\* C15: the delay slept after failed attempt k is
\* min(initialDelay * backoffFactor^(k-1), maxDelay); the delays never
\* decrease and never exceed maxDelay, and with the defaults they are
\* 1000, 2000, 4000, 8000, 10000, 10000.
C15_BackoffDelays ==
  retryCall.pc # "idle" =>
    LET o == retryCall.options
        i == ConfigOf(o, "initialDelay", 1000)
        b == ConfigOf(o, "backoffFactor", 2)
        m == ConfigOf(o, "maxDelay", 10000)
        d == retryCall.delays
    IN  /\ \A k \in 1..Len(d) :
             /\ d[k] = (IF i * Pow(b, k - 1) < m THEN i * Pow(b, k - 1) ELSE m)
             /\ d[k] <= m
             /\ k > 1 => d[k - 1] <= d[k]
        /\ (i = 1000 /\ b = 2 /\ m = 10000) =>
             d = SubSeq(<<1000, 2000, 4000, 8000, 10000, 10000>>, 1, Len(d))

C15_Witness ==
  /\ RetryExhausted
  /\ retryCall.delays = <<1000, 2000, 4000, 8000, 10000, 10000>>

\* C16: when every invocation has failed, retry fails with one error whose
\* message holds the message of the last failure and the number of attempts,
\* which is the number of invocations made.
C16_ExhaustionMessage ==
  RetryExhausted =>
    LET f == retryCall.failures
        last == f[Len(f)]
        text == IF last.instanceofError THEN last.message ELSE last.string
    IN  /\ Len(f) = retryCall.calls
        /\ retryCall.calls = ConfigOf(retryCall.options, "maxAttempts", 3)
        /\ retryCall.error =
             <<"Failed after ", ToString(retryCall.calls), " attempts: ", text>>
        /\ retryCall.result = undefined

C16_Witness ==
  /\ RetryExhausted
  /\ Len(retryCall.failures) = 2
  /\ retryCall.failures[1].message = "ECONNRESET"
  /\ retryCall.failures[2].message = "rate limited"
  /\ Contains(retryCall.error, "rate limited")
  /\ Contains(retryCall.error, "2")

\* C20: retry sleeps only between attempts: each failed attempt but the last
\* is followed by one sleep, the failure of attempt maxAttempts is followed
\* by the exhaustion error with no sleep; an exhausted retry has made
\* maxAttempts invocations and maxAttempts - 1 sleeps.
C20_SleepsBetweenAttempts ==
  LET n == ConfigOf(retryCall.options, "maxAttempts", 3)
      slept == Len(retryCall.delays)
  IN  /\ retryCall.pc \in {"await", "break", "threw"} =>
           slept = retryCall.calls - 1
      /\ retryCall.pc = "sleep" =>
           (slept = retryCall.calls - 1 /\ retryCall.calls < n)
      /\ retryCall.pc = "loop" => slept = retryCall.calls
      /\ retryCall.pc \in {"break", "threw"} => retryCall.calls = n
      /\ RetryExhausted => (retryCall.calls = n /\ slept = n - 1)

C20_Witness ==
  /\ RetryExhausted
  /\ retryCall.calls = 2 /\ Len(retryCall.delays) = 1
  /\ Len(retryCall.failures) = 2

\* ---------------------------------------------------------------------
\* MagnoliaClient: every method is one call of request(path, options).

Post(path) == [path |-> path, options |-> [method |-> "POST"]]
PostJson(path) == [path |-> path, options |-> [method |-> "POST", body |-> "json"]]
PutJson(path) == [path |-> path, options |-> [method |-> "PUT", body |-> "json"]]
Delete(path) == [path |-> path, options |-> [method |-> "DELETE"]]
Plain(path) == [path |-> path, options |-> Nothing]

\* The request each client method makes, for the arguments coin "tbtc",
\* wallet "w1", account "a1" and so on.
ClientMethods ==
  [login |-> PostJson("/auth/login"),
   listApiKeys |-> Plain("/auth/api-key"),
   deleteApiKey |-> Delete("/auth/api-key/k1"),
   getEnterprises |-> Plain("/api/v2/enterprise"),
   listWallets |-> Plain("/api/v2/tbtc/wallet"),
   getWallet |-> Plain("/api/v2/tbtc/wallet/w1"),
   generateAddress |-> Post("/api/v2/tbtc/wallet/w1/address"),
   listAddresses |-> Plain("/api/v2/tbtc/wallet/w1/addresses"),
   getAddressBalances |-> Plain("/api/v2/tbtc/wallet/w1/addresses/balances"),
   sendTransaction |-> PostJson("/api/v2/tbtc/wallet/w1/tx/send"),
   getWalletTransfer |-> Plain("/api/v2/tbtc/wallet/w1/transfer/t1"),
   listWalletTransfers |-> Plain("/api/v2/tbtc/wallet/w1/transfer"),
   listBankAccounts |-> Plain("/api/v2/bankaccounts"),
   listBankAccountsOfType |-> Plain("/api/v2/bankaccounts?type=ach"),
   getBankAccount |-> Plain("/api/v2/bankaccounts/ba_1"),
   addBankAccount |-> PostJson("/api/v2/bankaccounts"),
   updateBankAccount |-> PutJson("/api/v2/bankaccounts/ba_1"),
   deleteBankAccount |-> Delete("/api/v2/bankaccounts/ba_1"),
   getDepositInfo |-> Plain("/api/v2/bankaccounts/deposit/info"),
   getTradingBalances |-> Plain("/api/prime/trading/v1/accounts/a1/balances"),
   getTradingProducts |-> Plain("/api/prime/trading/v1/accounts/a1/products"),
   placeOrder |-> PostJson("/api/prime/trading/v1/accounts/a1/orders"),
   listOrders |-> Plain("/api/prime/trading/v1/accounts/a1/orders"),
   getOrder |-> Plain("/api/prime/trading/v1/accounts/a1/orders/o1"),
   cancelOrder |-> Post("/api/prime/trading/v1/accounts/a1/orders/o1/cancel"),
   getAchAgreement |-> Plain("/api/fiat/v1/transaction/ach-debit/agreement"),
   acceptAchAgreement |-> PostJson("/api/fiat/v1/transaction/ach-debit/agreement"),
   createAchDebit |-> PostJson("/api/fiat/v1/transaction/ach-debit"),
   createLightningInvoice |-> PostJson("/api/v2/wallet/w1/lightning/invoice"),
   getLightningInvoice |-> Plain("/api/v2/wallet/w1/lightning/invoice/h1"),
   makeLightningPayment |-> PostJson("/api/v2/wallet/w1/lightning/payment"),
   listLightningTransactions |-> Plain("/api/v2/wallet/w1/lightning/transaction"),
   lookupRoutingNumber |-> Plain("/api/tradfi/v1/banks/ach/021000021")]

\* Responses of the server: a status and a body text, with what JSON.parse
\* makes of the text (isJson is FALSE when it throws).
HttpStatuses == {200, 201, 204, 304, 400, 401, 404, 500}
HttpBodies ==
  {[text |-> "{\"id\":\"w1\"}", isJson |-> TRUE, json |-> [id |-> "w1"]],
   [text |-> "{\"error\":\"unauthorized\"}", isJson |-> TRUE,
    json |-> [error |-> "unauthorized"]],
   [text |-> "Bad Gateway", isJson |-> FALSE, json |-> Nothing],
   [text |-> "", isJson |-> FALSE, json |-> Nothing]}
Responses == {[status |-> st, body |-> b] : st \in HttpStatuses, b \in HttpBodies}

\* res.ok: the status is in the range 200-299.
ResOk(res) == 200 <= res.status /\ res.status <= 299

\* headers: User-Agent, Authorization, and Content-Type for a string body.
RequestHeaders(o) ==
  [UserAgent |-> "ClawBot-MCP/1.0", Authorization |-> "Bearer apiKey"] @@
  (IF Has(o, "body") THEN [ContentType |-> "application/json"] ELSE Nothing)

\* A variant that prints options.method as it is.
RequestMethod_NoDefault(o) == Get(o, "method")

\* options.method || "GET"
RequestMethod(o) == Or(Get(o, "method"), "GET")

\* `Magnolia API error ${res.status} on ${method} ${path}: ${text}`
RequestError(path, o, res) ==
  <<"Magnolia API error", " ", ToString(res.status), " on ",
    RequestMethod(o), " ", path, ": ", res.body.text>>

\* try { return JSON.parse(text) } catch { return text }
ParseOrText(body) == IF body.isJson THEN body.json ELSE body.text

RequestInit ==
  /\ PollIdle /\ NoOtherCall
  /\ predicateCall = Idle
  /\ retryCall = Idle
  /\ \E m \in DOMAIN ClientMethods :
       requestCall = [pc |-> "call", method |-> m,
                      path |-> ClientMethods[m].path,
                      options |-> ClientMethods[m].options]

\* const res = await fetch(`${this.apiUrl}${path}`, {...options, headers})
\* and const text = await res.text(), the server answering.
Fetch ==
  /\ requestCall.pc = "call"
  /\ \E res \in Responses :
       requestCall' = [requestCall EXCEPT !.pc = "response"] @@
         [sent |-> [url |-> <<"apiUrl", requestCall.path>>,
                    init |-> [headers |-> RequestHeaders(requestCall.options)]
                               @@ requestCall.options],
          res |-> res]
  /\ UNCHANGED <<pollVars, toolCall, cleanupCall, concurrentCalls, predicateCall, retryCall>>

\* await fetch(...) rejects: no response; the rejection is the caller's.
FetchRejects ==
  /\ requestCall.pc = "call"
  /\ requestCall' = [requestCall EXCEPT !.pc = "threw"] @@
                      [error |-> <<"fetch failed">>]
  /\ UNCHANGED <<pollVars, toolCall, cleanupCall, concurrentCalls, predicateCall, retryCall>>

\* A variant that hands the body of any response to the caller.
RequestThrows_ReturnBody ==
  /\ requestCall.pc = "response"
  /\ ~ResOk(requestCall.res)
  /\ requestCall' = [requestCall EXCEPT !.pc = "returned"] @@
                      [result |-> ParseOrText(requestCall.res.body)]
  /\ UNCHANGED <<pollVars, toolCall, cleanupCall, concurrentCalls, predicateCall, retryCall>>

\* if (!res.ok) throw new Error(...)
RequestThrows ==
  /\ requestCall.pc = "response"
  /\ ~ResOk(requestCall.res)
  /\ requestCall' = [requestCall EXCEPT !.pc = "threw"] @@
                      [error |-> RequestError(requestCall.path,
                                              requestCall.options,
                                              requestCall.res)]
  /\ UNCHANGED <<pollVars, toolCall, cleanupCall, concurrentCalls, predicateCall, retryCall>>

\* return JSON.parse(text), or text when it is not JSON
RequestReturns ==
  /\ requestCall.pc = "response"
  /\ ResOk(requestCall.res)
  /\ requestCall' = [requestCall EXCEPT !.pc = "returned"] @@
                      [result |-> ParseOrText(requestCall.res.body)]
  /\ UNCHANGED <<pollVars, toolCall, cleanupCall, concurrentCalls, predicateCall, retryCall>>

RequestNext ==
  \/ Fetch
  \/ FetchRejects
  \/ RequestThrows
  \/ RequestReturns

RequestSpec == RequestInit /\ [][RequestNext]_vars

\* C18: for every client method, a response that is not OK makes the call
\* reject with an Error whose message holds "Magnolia API error", the
\* status, the HTTP method (GET when the method gave none) and the path; the
\* body of such a response is never returned.
C18_ErrorNormalization ==
  requestCall.pc \in {"returned", "threw"} /\ Has(requestCall, "res") =>
    LET res == requestCall.res
        o == ClientMethods[requestCall.method].options
        method == IF Has(o, "method") THEN o.method ELSE "GET"
    IN  IF res.status \in 200..299
        THEN requestCall.pc = "returned"
        ELSE /\ requestCall.pc = "threw"
             /\ ~Has(requestCall, "result")
             /\ Contains(requestCall.error, "Magnolia API error")
             /\ Contains(requestCall.error, ToString(res.status))
             /\ Contains(requestCall.error, method)
             /\ method \in {"GET", "POST", "PUT", "DELETE"}
             /\ Contains(requestCall.error, ClientMethods[requestCall.method].path)

C18_Witness ==
  /\ requestCall.pc = "threw"
  /\ requestCall.method = "getWallet"
  /\ requestCall.error =
       <<"Magnolia API error", " ", "401", " on ", "GET", " ",
         "/api/v2/tbtc/wallet/w1", ": ", "{\"error\":\"unauthorized\"}">>

\* Accessor invocations started and not yet completed: every completed
\* attempt has returned or has gone on to its sleep.
InFlight ==
  attempts - sleeps - (IF pc \in {"sleep", "returned"} THEN 1 ELSE 0)

\* C21: the attempts of one call are strictly sequential: at most one
\* accessor invocation is in flight, the next attempt starts only after the
\* one before has completed and its sleep has elapsed, time never goes back,
\* and the attempt counter goes up by one with each invocation.
C21_SequentialAttempts ==
  /\ [](InFlight = (IF pc = "await" THEN 1 ELSE 0))
  /\ [][/\ now' >= now
        /\ attempts' # attempts =>
             /\ attempts' = attempts + 1
             /\ pc = "loop" /\ pc' = "await"
             /\ InFlight = 0
             /\ sleeps = attempts
        /\ pc' = "await" => attempts' = attempts + 1
       ]_vars

C21_Witness ==
  /\ pc = "await" /\ InFlight = 1
  /\ attempts = 2 /\ sleeps = 1 /\ lastLatency = 1500
  /\ now >= startTime + 1500 + pollInterval

\* C23: a call that returns hands out a result of the accessor on which the
\* predicate is true, and the first such: as long as the call goes on after
\* a result, the predicate was not true on that result.
C23_FirstSatisfyingResult ==
  /\ Returned =>
       /\ result \in ResultsFor(fn)
       /\ result = lastResult
       /\ ConditionHolds(result) /\ ~ConditionThrows(result)
  /\ (pc \in {"sleep", "loop", "await", "threw"} /\ lastResult # undefined)
       => ~Satisfied

C23_Witness ==
  /\ Returned /\ fn = "pollUntil"
  /\ attempts = 3 /\ nFail = 0
  /\ result = [status |-> "paid"]

\* C24: the deadline is looked at only before an attempt starts.  An
\* invocation that started before maxWait and completes after it is still
\* evaluated, and a satisfying result is returned, not turned into the
\* timeout error; a call returns less than maxWait plus the latency of its
\* last invocation after it started.
C24_DeadlineOnlyBeforeAttempt ==
  /\ [](Returned => (Satisfied /\ Elapsed < maxWait + lastLatency))
  /\ [][/\ attempts' # attempts => WithinDeadline
        /\ pc = "await" => pc' \in {"returned", "sleep"}
        /\ (pc = "await" /\ pc' = "sleep" /\ nFail' = nFail) =>
             (lastResult' # undefined /\ ~Satisfied')
       ]_vars

C24_Witness ==
  /\ Returned /\ Elapsed >= maxWait /\ lastLatency > 0
  /\ attempts = 1

\* ceil(a / b) for b > 0
Ceil(a, b) == (a + b - 1) \div b

C26_LastResultSnapshot ==
  /\ [](TimedOut =>
          error.message =
            timeoutMsg \o <<"\nLast result: ">> \o JsonStringify(lastResult))
  /\ []((lastResult = undefined /\ pc \in {"sleep", "loop", "threw"}) =>
          attempts = nFail)
  /\ [][/\ nFail' # nFail => lastResult' = lastResult
        /\ pc # "await" => lastResult' = lastResult
        /\ (pc = "await" /\ nFail' = nFail) =>
             /\ lastResult' \in ResultsFor(fn)
             /\ pc' = "returned" => result' = lastResult'
       ]_vars

C26_Witness ==
  /\ TimedOut /\ attempts = 3 /\ nFail = 2
  /\ lastResult = [confirmations |-> 0]
  /\ PredicateThrew
  /\ SnapshotIn(error.message, lastResult)

\* C28: waitForTransactionConfirmation takes a missing or zero confirmations
\* field for 0: with minConfirmations <= 0 every result is terminal, with
\* minConfirmations >= 1 a result without confirmations is terminal only
\* through its status.
C28_MissingConfirmations ==
  (Evaluated /\ predicateCall.fn = "waitForTransactionConfirmation") =>
    LET min == IF Has(predicateCall.args, "minConfirmations")
               THEN predicateCall.args.minConfirmations ELSE 1
        probe == predicateCall.probe
        none == ~Has(probe, "confirmations") \/ probe.confirmations = 0
    IN  /\ min <= 0 => predicateCall.verdict
        /\ (min >= 1 /\ none) =>
             (predicateCall.verdict <=>
                Get(probe, "status") \in {"confirmed", "complete"})

C28_Witness ==
  /\ Evaluated /\ predicateCall.fn = "waitForTransactionConfirmation"
  /\ predicateCall.args = [minConfirmations |-> 0]
  /\ predicateCall.probe = [status |-> "pending"]
  /\ predicateCall.verdict

\* ---------------------------------------------------------------------
\* The two helpers side by side: a behaviour is one call of pollUntil (or of
\* a wrapper) or one call of retry.
HelpersInit == Init \/ RetryInit

HelpersNext == Next \/ RetryNext

HelpersSpec == HelpersInit /\ [][HelpersNext]_vars

\* The option k is given as 0.
GivenZero(o, k) == Has(o, k) /\ o[k] = 0

\* C27: an option given as 0 counts as omitted.  pollUntil with maxWait = 0
\* polls for the default 30000 ms, with pollInterval = 0 it sleeps 1000 ms;
\* retry with maxAttempts, initialDelay, maxDelay or backoffFactor = 0 uses 3,
\* 1000, 10000 and 2.  So pollUntil with maxWait >= 0 and retry with
\* maxAttempts >= 0 never end without one invocation.
C27_ZeroIsOmitted ==
  /\ pc # "idle" =>
       /\ GivenZero(options, "maxWait") =>
            /\ TimedOut => (Elapsed >= 30000 /\ attempts >= 2)
            /\ (pc = "loop" /\ Elapsed < 30000) => ENABLED Invoke
       /\ GivenZero(options, "pollInterval") =>
            (nSlow = 0 => Elapsed = 1000 * sleeps)
       /\ (~Has(options, "maxWait") \/ options.maxWait >= 0) =>
            /\ pc \in {"returned", "threw"} => attempts >= 1
            /\ attempts = 0 => (pc = "loop" /\ ENABLED Invoke)
  /\ retryCall.pc # "idle" =>
       LET o == retryCall.options
           d == retryCall.delays
       IN  /\ GivenZero(o, "maxAttempts") =>
                /\ retryCall.calls <= 3
                /\ RetryExhausted =>
                     (retryCall.calls = 3 /\ Contains(retryCall.error, "3"))
           /\ (GivenZero(o, "initialDelay") /\ Len(d) >= 1) =>
                d[1] = (IF ConfigOf(o, "maxDelay", 10000) < 1000
                        THEN ConfigOf(o, "maxDelay", 10000) ELSE 1000)
           /\ GivenZero(o, "maxDelay") => \A k \in 1..Len(d) : d[k] <= 10000
           /\ (GivenZero(o, "maxDelay") /\ Len(d) >= 6) => d[6] = 10000
           /\ (GivenZero(o, "backoffFactor") /\ Len(d) >= 2
                 /\ 2 * d[1] <= ConfigOf(o, "maxDelay", 10000)) =>
                d[2] = 2 * d[1]
           /\ retryCall.pc \in {"returned", "threw"} => retryCall.calls >= 1
           /\ retryCall.calls = 0 => (retryCall.pc = "loop" /\ ENABLED RetryInvoke)

C27_Witness ==
  /\ TimedOut /\ fn = "pollUntil"
  /\ GivenZero(options, "maxWait") /\ GivenZero(options, "pollInterval")
  /\ attempts = 30 /\ sleeps = 30 /\ Elapsed = 30000

\* ---------------------------------------------------------------------
\* The MCP server: every registered tool is a handler that awaits one
\* method of the client and wraps what it gets.

\* The client method each tool calls.
Tools ==
  [list_enterprises |-> "getEnterprises",
   list_wallets |-> "listWallets",
   get_wallet |-> "getWallet",
   generate_address |-> "generateAddress",
   list_addresses |-> "listAddresses",
   get_address_balances |-> "getAddressBalances",
   send_crypto |-> "sendTransaction",
   get_wallet_transfer |-> "getWalletTransfer",
   list_wallet_transfers |-> "listWalletTransfers",
   list_bank_accounts |-> "listBankAccounts",
   get_bank_account |-> "getBankAccount",
   add_bank_account |-> "addBankAccount",
   delete_bank_account |-> "deleteBankAccount",
   get_deposit_info |-> "getDepositInfo",
   get_trading_balances |-> "getTradingBalances",
   get_trading_products |-> "getTradingProducts",
   place_order |-> "placeOrder",
   list_orders |-> "listOrders",
   get_order |-> "getOrder",
   cancel_order |-> "cancelOrder",
   get_ach_agreement |-> "getAchAgreement",
   accept_ach_agreement |-> "acceptAchAgreement",
   create_ach_debit |-> "createAchDebit",
   create_lightning_invoice |-> "createLightningInvoice",
   get_lightning_invoice |-> "getLightningInvoice",
   pay_lightning_invoice |-> "makeLightningPayment",
   list_lightning_transactions |-> "listLightningTransactions",
   lookup_routing_number |-> "lookupRoutingNumber",
   list_api_keys |-> "listApiKeys",
   delete_api_key |-> "deleteApiKey"]

\* JSON.stringify(data, null, 2) of what request returned for a body: the
\* parsed object, or the text itself as a JSON string.
StringifyParsed(body) ==
  IF body.isJson THEN JsonStringify(body.json) ELSE <<Quote(body.text)>>

\* jsonResponse(data)
jsonResponse(body) ==
  [content |-> <<[type |-> "text", text |-> StringifyParsed(body)]>>]

\* error instanceof Error ? error.message : String(error)
ErrorMessage(e) == IF e.instanceofError THEN e.message ELSE e.string

\* errorResponse(error)
errorResponse(e) ==
  [content |-> <<[type |-> "text", text |-> <<"Error: ">> \o ErrorMessage(e)]>>,
   isError |-> TRUE]

\* new Error(message)
NewError(message) ==
  [instanceofError |-> TRUE, message |-> message,
   string |-> <<"Error: ">> \o message]

\* The TypeError fetch rejects with when the network fails.
FetchFailed ==
  [instanceofError |-> TRUE, message |-> <<"fetch failed">>,
   string |-> <<"TypeError: fetch failed">>]

ToolInit ==
  /\ PollIdle
  /\ predicateCall = Idle /\ retryCall = Idle /\ requestCall = Idle
  /\ cleanupCall = Idle /\ concurrentCalls = Idle
  /\ \E t \in DOMAIN Tools :
       toolCall = [pc |-> "call", tool |-> t, method |-> Tools[t],
                   clientCalls |-> 0]

\* try { const data = await client.method(...)
ToolInvoke ==
  /\ toolCall.pc = "call"
  /\ toolCall' = [toolCall EXCEPT !.pc = "await", !.clientCalls = @ + 1]
  /\ UNCHANGED <<pollVars, predicateCall, retryCall, requestCall,
                 cleanupCall, concurrentCalls>>

\* The client resolves (an OK response): return jsonResponse(data)
ToolClientResolves ==
  /\ toolCall.pc = "await"
  /\ \E res \in Responses :
       /\ ResOk(res)
       /\ toolCall' = [toolCall EXCEPT !.pc = "returned"] @@
            [res |-> res, response |-> jsonResponse(res.body)]
  /\ UNCHANGED <<pollVars, predicateCall, retryCall, requestCall,
                 cleanupCall, concurrentCalls>>

\* What the client rejects with: the error of request for a response that
\* is not OK, or the rejection of fetch.
ClientErrors(method) ==
  {NewError(RequestError(ClientMethods[method].path,
                         ClientMethods[method].options, res)) :
     res \in {x \in Responses : ~ResOk(x)}} \cup {FetchFailed}

\* A variant of the handler without the catch block.
ToolClientRejects_Uncaught ==
  /\ toolCall.pc = "await"
  /\ \E e \in ClientErrors(toolCall.method) :
       toolCall' = [toolCall EXCEPT !.pc = "threw"] @@ [caught |-> e]
  /\ UNCHANGED <<pollVars, predicateCall, retryCall, requestCall,
                 cleanupCall, concurrentCalls>>

\* The client rejects: catch (e) { return errorResponse(e) }
ToolClientRejects ==
  /\ toolCall.pc = "await"
  /\ \E e \in ClientErrors(toolCall.method) :
       toolCall' = [toolCall EXCEPT !.pc = "returned"] @@
            [caught |-> e, response |-> errorResponse(e)]
  /\ UNCHANGED <<pollVars, predicateCall, retryCall, requestCall,
                 cleanupCall, concurrentCalls>>

ToolNext ==
  \/ ToolInvoke
  \/ ToolClientResolves
  \/ ToolClientRejects

ToolSpec == ToolInit /\ [][ToolNext]_vars

\* C29: a tool handler never throws.  When the client call fails it returns
\* a response with isError true and the text "Error: " followed by the
\* message; when it succeeds it returns the JSON text without isError; it
\* calls the client once.
C29_HandlerNeverThrows ==
  toolCall.pc # "idle" =>
    /\ toolCall.pc \in {"call", "await", "returned"}
    /\ toolCall.clientCalls = (IF toolCall.pc = "call" THEN 0 ELSE 1)
    /\ toolCall.pc = "returned" =>
         LET content == toolCall.response.content
         IN  /\ Len(content) = 1 /\ content[1].type = "text"
             /\ IF Has(toolCall, "caught")
                THEN /\ Has(toolCall.response, "isError")
                     /\ toolCall.response.isError = TRUE
                     /\ content[1].text =
                          <<"Error: ">> \o toolCall.caught.message
                ELSE /\ ~Has(toolCall.response, "isError")
                     /\ toolCall.res.status \in 200..299
                     /\ content[1].text =
                          (IF toolCall.res.body.isJson
                           THEN JsonStringify(toolCall.res.body.json)
                           ELSE <<Quote(toolCall.res.body.text)>>)

C29_Witness ==
  /\ toolCall.pc = "returned" /\ toolCall.tool = "create_ach_debit"
  /\ toolCall.clientCalls = 1
  /\ toolCall.response.content[1].text =
       <<"Error: ", "Magnolia API error", " ", "401", " on ", "POST", " ",
         "/api/fiat/v1/transaction/ach-debit", ": ",
         "{\"error\":\"unauthorized\"}">>
  /\ toolCall.response.isError

\* ---------------------------------------------------------------------
\* cleanupTestResources(client).  Names are sequences of characters.

UpperToLower ==
  [A |-> "a", B |-> "b", C |-> "c", D |-> "d", E |-> "e", F |-> "f",
   G |-> "g", H |-> "h", I |-> "i", J |-> "j", K |-> "k", L |-> "l",
   M |-> "m", N |-> "n", O |-> "o", P |-> "p", Q |-> "q", R |-> "r",
   S |-> "s", T |-> "t", U |-> "u", V |-> "v", W |-> "w", X |-> "x",
   Y |-> "y", Z |-> "z"]

\* name.toLowerCase()
ToLowerCase(name) ==
  [i \in 1..Len(name) |->
     IF name[i] \in DOMAIN UpperToLower THEN UpperToLower[name[i]] ELSE name[i]]

\* text.includes(part)
Includes(text, part) == ContainsText(text, part)

\* name.toLowerCase().includes("test") || name.toLowerCase().includes("e2e")
IsTestName(name) ==
  \/ Includes(ToLowerCase(name), <<"t", "e", "s", "t">>)
  \/ Includes(ToLowerCase(name), <<"e", "2", "e">>)

\* A variant that compares the id of the key with the current API key.
IsCurrentKey_ById(key, env) == key.id = Get(env, "MAGNOLIA_API_KEY")

\* key.apiKey === currentApiKey
IsCurrentKey(key, env) == Get(key, "apiKey") = Get(env, "MAGNOLIA_API_KEY")

\* The resources of the account at the remote service.
NameTest == <<"T", "e", "s", "t", " ", "A", "C", "H">>
NameE2E == <<"m", "y", "-", "E", "2", "E">>
NameLatest == <<"L", "A", "T", "E", "S", "T">>
NameMain == <<"M", "a", "i", "n">>
NameTes == <<"t", "e", "s", "-", "e", "2">>

BankAccounts ==
  {[id |-> "ba1", name |-> NameTest], [id |-> "ba2", name |-> NameMain],
   [id |-> "ba3", name |-> NameE2E], [id |-> "ba4", name |-> NameTes],
   [id |-> "ba5"]}

ApiKeys ==
  {[id |-> "k1", name |-> NameTest, apiKey |-> "magfi_current"],
   [id |-> "k2", name |-> NameLatest, apiKey |-> "magfi_other"],
   [id |-> "k3", name |-> NameMain, apiKey |-> "magfi_main"],
   [id |-> "k4", name |-> NameE2E],
   [id |-> "k5", apiKey |-> "magfi_unnamed"]}

\* Lists of at most two of them.
ListsOf(S) == {<<>>} \cup {<<x>> : x \in S} \cup {<<x, y>> : x, y \in S}

\* process.env
Environments == {Nothing, [MAGNOLIA_API_KEY |-> "magfi_current"]}

\* What a client call of the cleanup rejects with.
CleanupRejections ==
  {[instanceofError |-> TRUE, message |-> "Magnolia API error 500",
    string |-> "Error: Magnolia API error 500"],
   [instanceofError |-> FALSE, message |-> NoProp, string |-> "boom"]}

\* The TypeErrors of the runtime.
NameOfUndefined ==
  [instanceofError |-> TRUE,
   message |-> "Cannot read properties of undefined (reading 'toLowerCase')",
   string |-> "TypeError"]
NotIterable ==
  [instanceofError |-> TRUE, message |-> "apiKeys is not iterable",
   string |-> "TypeError"]

CleanupStart(env) ==
  [pc |-> "listBankAccounts", env |-> env, accounts |-> <<>>, keys |-> <<>>,
   i |-> 0, deletedBankAccounts |-> 0, deletedApiKeys |-> 0,
   errors |-> <<>>, log |-> <<>>]

\* errors.push(`${prefix}${e instanceof Error ? e.message : String(e)}`)
PushError(c, prefix, e) ==
  [c EXCEPT !.errors = Append(@, prefix \o <<ErrorText(e)>>)]

\* The second try block starts: await client.listApiKeys()
ToApiKeys(c) == [c EXCEPT !.pc = "listApiKeys", !.i = 0]

RECURSIVE BankLoop(_, _)
\* for (const account of bankAccounts.bankAccounts), from the i-th account
\* to the next await.
BankLoop(c, i) ==
  IF i > Len(c.accounts) THEN ToApiKeys(c)
  ELSE IF ~Has(c.accounts[i], "name")
       THEN ToApiKeys(PushError(c, <<"Failed to list/delete bank accounts: ">>,
                                NameOfUndefined))
       ELSE IF IsTestName(c.accounts[i].name)
            THEN [c EXCEPT !.pc = "deleteBankAccount", !.i = i]
            ELSE BankLoop(c, i + 1)

\* return { deletedBankAccounts, deletedApiKeys, errors }
CleanupReturn(c) ==
  [c EXCEPT !.pc = "returned"] @@
    [result |-> [deletedBankAccounts |-> c.deletedBankAccounts,
                 deletedApiKeys |-> c.deletedApiKeys,
                 errors |-> c.errors]]

RECURSIVE KeyLoop(_, _)
\* for (const key of apiKeys), from the i-th key to the next await.
KeyLoop(c, i) ==
  IF i > Len(c.keys) THEN CleanupReturn(c)
  ELSE LET key == c.keys[i]
           isTestKey == Has(key, "name") /\ IsTestName(key.name)
       IN  IF ~IsCurrentKey(key, c.env) /\ isTestKey
           THEN [c EXCEPT !.pc = "deleteApiKey", !.i = i]
           ELSE KeyLoop(c, i + 1)

CleanupInit ==
  /\ PollIdle
  /\ predicateCall = Idle /\ retryCall = Idle /\ requestCall = Idle
  /\ toolCall = Idle /\ concurrentCalls = Idle
  /\ \E env \in Environments : cleanupCall = CleanupStart(env)

\* const bankAccounts = await client.listBankAccounts(): the call rejects,
\* or resolves with an object with or without the bankAccounts list.
ListBankAccounts ==
  /\ cleanupCall.pc = "listBankAccounts"
  /\ \/ \E e \in CleanupRejections :
          cleanupCall' =
            ToApiKeys(PushError(cleanupCall,
                                <<"Failed to list/delete bank accounts: ">>, e))
     \/ cleanupCall' = ToApiKeys(cleanupCall)
     \/ \E list \in ListsOf(BankAccounts) :
          cleanupCall' = BankLoop([cleanupCall EXCEPT !.accounts = list], 1)
  /\ UNCHANGED <<pollVars, predicateCall, retryCall, requestCall,
                 toolCall, concurrentCalls>>

\* await client.deleteBankAccount(account.id); deletedBankAccounts++
DeleteBankAccountResolves ==
  /\ cleanupCall.pc = "deleteBankAccount"
  /\ LET id == cleanupCall.accounts[cleanupCall.i].id
     IN  cleanupCall' =
           BankLoop([cleanupCall EXCEPT
                       !.deletedBankAccounts = @ + 1,
                       !.log = Append(@, [kind |-> "bankAccount", id |-> id,
                                          ok |-> TRUE])],
                    cleanupCall.i + 1)
  /\ UNCHANGED <<pollVars, predicateCall, retryCall, requestCall,
                 toolCall, concurrentCalls>>

\* catch (e) { errors.push(`Failed to delete bank account ...`) }
DeleteBankAccountRejects ==
  /\ cleanupCall.pc = "deleteBankAccount"
  /\ \E e \in CleanupRejections :
       LET id == cleanupCall.accounts[cleanupCall.i].id
           c == [cleanupCall EXCEPT
                   !.log = Append(@, [kind |-> "bankAccount", id |-> id,
                                      ok |-> FALSE])]
       IN  cleanupCall' =
             BankLoop(PushError(c, <<"Failed to delete bank account ", id, ": ">>, e),
                      cleanupCall.i + 1)
  /\ UNCHANGED <<pollVars, predicateCall, retryCall, requestCall,
                 toolCall, concurrentCalls>>

\* const apiKeys = await client.listApiKeys(): the call rejects, or resolves
\* with an array of keys or with something that is not iterable.
ListApiKeys ==
  /\ cleanupCall.pc = "listApiKeys"
  /\ \/ \E e \in CleanupRejections :
          cleanupCall' =
            CleanupReturn(PushError(cleanupCall,
                                    <<"Failed to list/delete API keys: ">>, e))
     \/ cleanupCall' =
          CleanupReturn(PushError(cleanupCall,
                                  <<"Failed to list/delete API keys: ">>,
                                  NotIterable))
     \/ \E list \in ListsOf(ApiKeys) :
          cleanupCall' = KeyLoop([cleanupCall EXCEPT !.keys = list], 1)
  /\ UNCHANGED <<pollVars, predicateCall, retryCall, requestCall,
                 toolCall, concurrentCalls>>

\* await client.deleteApiKey(key.id); deletedApiKeys++
DeleteApiKeyResolves ==
  /\ cleanupCall.pc = "deleteApiKey"
  /\ LET id == cleanupCall.keys[cleanupCall.i].id
     IN  cleanupCall' =
           KeyLoop([cleanupCall EXCEPT
                      !.deletedApiKeys = @ + 1,
                      !.log = Append(@, [kind |-> "apiKey", id |-> id,
                                         ok |-> TRUE])],
                   cleanupCall.i + 1)
  /\ UNCHANGED <<pollVars, predicateCall, retryCall, requestCall,
                 toolCall, concurrentCalls>>

\* catch (e) { errors.push(`Failed to delete API key ...`) }
DeleteApiKeyRejects ==
  /\ cleanupCall.pc = "deleteApiKey"
  /\ \E e \in CleanupRejections :
       LET id == cleanupCall.keys[cleanupCall.i].id
           c == [cleanupCall EXCEPT
                   !.log = Append(@, [kind |-> "apiKey", id |-> id,
                                      ok |-> FALSE])]
       IN  cleanupCall' =
             KeyLoop(PushError(c, <<"Failed to delete API key ", id, ": ">>, e),
                     cleanupCall.i + 1)
  /\ UNCHANGED <<pollVars, predicateCall, retryCall, requestCall,
                 toolCall, concurrentCalls>>

CleanupNext ==
  \/ ListBankAccounts
  \/ DeleteBankAccountResolves
  \/ DeleteBankAccountRejects
  \/ ListApiKeys
  \/ DeleteApiKeyResolves
  \/ DeleteApiKeyRejects

CleanupSpec == CleanupInit /\ [][CleanupNext]_vars

\* The names above that contain "test" or "e2e" in some case.
TestNamed == {NameTest, NameE2E, NameLatest}

\* The entries of the log of one kind, and those that succeeded.
DeletesOf(kind) == SelectSeq(cleanupCall.log, LAMBDA x : x.kind = kind)
SucceededOf(kind) == SelectSeq(DeletesOf(kind), LAMBDA x : x.ok)

\* The accounts of a list before the first one without a name.
RECURSIVE NamedPrefix(_)
NamedPrefix(list) ==
  IF list = <<>> \/ ~Has(Head(list), "name") THEN <<>>
  ELSE <<Head(list)>> \o NamedPrefix(Tail(list))

\* The key is the one of the current MAGNOLIA_API_KEY.
CurrentKey(key) ==
  /\ Has(key, "apiKey") /\ Has(cleanupCall.env, "MAGNOLIA_API_KEY")
  /\ key.apiKey = cleanupCall.env.MAGNOLIA_API_KEY

\* The key has the apiKey of the environment, or neither has one.
SameAsCurrent(key) ==
  IF Has(key, "apiKey") /\ Has(cleanupCall.env, "MAGNOLIA_API_KEY")
  THEN key.apiKey = cleanupCall.env.MAGNOLIA_API_KEY
  ELSE ~Has(key, "apiKey") /\ ~Has(cleanupCall.env, "MAGNOLIA_API_KEY")

\* The ids of a sequence of resources or of log entries.
Ids(seq) == [i \in 1..Len(seq) |-> seq[i].id]

\* C30: cleanupTestResources never calls delete on the key of the current
\* MAGNOLIA_API_KEY nor on a bank account or key whose name has neither
\* "test" nor "e2e" in any case; it never throws; a delete that fails is
\* recorded in errors and the resources after it are still deleted; the
\* counts returned are the numbers of deletes that succeeded.
C30_SafeCleanup ==
  cleanupCall.pc # "idle" =>
    LET c == cleanupCall
        bankDone == c.pc \in {"listApiKeys", "deleteApiKey", "returned"}
        failed == SelectSeq(c.log, LAMBDA x : ~x.ok)
    IN  /\ c.pc \in {"listBankAccounts", "deleteBankAccount", "listApiKeys",
                     "deleteApiKey", "returned"}
        /\ c.pc = "deleteBankAccount" => c.accounts[c.i].name \in TestNamed
        /\ c.pc = "deleteApiKey" =>
             /\ ~CurrentKey(c.keys[c.i])
             /\ Has(c.keys[c.i], "name") /\ c.keys[c.i].name \in TestNamed
        /\ \A k \in 1..Len(c.log) :
             IF c.log[k].kind = "bankAccount"
             THEN \E a \in BankAccounts :
                    a.id = c.log[k].id /\ Has(a, "name") /\ a.name \in TestNamed
             ELSE \E key \in ApiKeys :
                    /\ key.id = c.log[k].id /\ ~CurrentKey(key)
                    /\ Has(key, "name") /\ key.name \in TestNamed
        /\ \A k \in 1..Len(failed) :
             \E j \in 1..Len(c.errors) : Contains(c.errors[j], failed[k].id)
        /\ bankDone =>
             Ids(DeletesOf("bankAccount")) =
               Ids(SelectSeq(NamedPrefix(c.accounts),
                             LAMBDA a : a.name \in TestNamed))
        /\ c.pc = "returned" =>
             /\ Ids(DeletesOf("apiKey")) =
                  Ids(SelectSeq(c.keys,
                                LAMBDA key : /\ ~SameAsCurrent(key)
                                             /\ Has(key, "name")
                                             /\ key.name \in TestNamed))
             /\ c.result.deletedBankAccounts = Len(SucceededOf("bankAccount"))
             /\ c.result.deletedApiKeys = Len(SucceededOf("apiKey"))
             /\ c.result.errors = c.errors
             /\ Len(c.errors) >= Len(failed)

C30_Witness ==
  /\ cleanupCall.pc = "returned"
  /\ Ids(cleanupCall.accounts) = <<"ba1", "ba3">>
  /\ Ids(cleanupCall.keys) = <<"k1", "k2">>
  /\ Has(cleanupCall.env, "MAGNOLIA_API_KEY")
  /\ cleanupCall.log =
       <<[kind |-> "bankAccount", id |-> "ba1", ok |-> FALSE],
         [kind |-> "bankAccount", id |-> "ba3", ok |-> TRUE],
         [kind |-> "apiKey", id |-> "k2", ok |-> TRUE]>>
  /\ cleanupCall.result.deletedBankAccounts = 1
  /\ cleanupCall.result.deletedApiKeys = 1
  /\ Len(cleanupCall.result.errors) = 1

\* ---------------------------------------------------------------------
\* Calls of pollUntil and retry running concurrently on the event loop: one
\* clock, and for each call the locals of its own invocation.

Slots == {1, 2}

\* What the accessor or operation of a call answers, invocation by
\* invocation (the last answer repeats), with the time each answer takes.
Scripts ==
  LET pending == [ok |-> TRUE, value |-> [status |-> "pending"],
                  error |-> undefined, lat |-> 0]
      paid == [ok |-> TRUE, value |-> [status |-> "paid"],
               error |-> undefined, lat |-> 0]
      slow == [ok |-> TRUE, value |-> [status |-> "pending"],
               error |-> undefined, lat |-> 1500]
      reset == [ok |-> FALSE, value |-> undefined,
                error |-> [instanceofError |-> TRUE, message |-> "ECONNRESET",
                           string |-> "Error: ECONNRESET"], lat |-> 0]
      boom == [ok |-> FALSE, value |-> undefined,
               error |-> [instanceofError |-> FALSE, message |-> NoProp,
                          string |-> "boom"], lat |-> 0]
  IN  {<<pending, paid>>, <<reset, slow>>, <<slow, boom, paid>>}

ScriptAt(script, i) == script[IF i <= Len(script) THEN i ELSE Len(script)]

\* The calls made: pollUntil(fn, condition, options) or retry(fn, options).
CallConfigs ==
  {[kind |-> "pollUntil", options |-> o, script |-> sc, pc |-> "ready",
    condition |-> [accept |-> {"paid", "settled", "expired", "cancelled"},
                   strict |-> FALSE]] :
     o \in {[maxWait |-> 2000], [maxWait |-> 3000, pollInterval |-> 0]},
     sc \in Scripts}
  \cup
  {[kind |-> "retry", options |-> o, script |-> sc, pc |-> "ready"] :
     o \in {Nothing, [maxAttempts |-> 2, initialDelay |-> 500]},
     sc \in Scripts}

MaxWaitOf(o) == NumOr(o, "maxWait", DefaultMaxWait)
PollIntervalOf(o) == NumOr(o, "pollInterval", DefaultPollInterval)

\* The timeout error of a call without a custom message.
PollTimeoutMessage(o, n, last) ==
  <<"pollUntil: condition not met after ", ToString(MaxWaitOf(o)), "ms (",
    ToString(n), " attempts)", "\nLast result: ">> \o JsonStringify(last)

ReturnedOutcome(v, n) ==
  [status |-> "returned", value |-> v, attempts |-> n, message |-> <<>>]
ThrewOutcome(msg, n) ==
  [status |-> "threw", value |-> undefined, attempts |-> n, message |-> msg]

\* A variant in which the start time is taken once, when the module loads.
PollLocals_SharedStart(t) ==
  [startTime |-> 0, lastResult |-> undefined, attempts |-> 0, i |-> 0,
   wake |-> 0, outcome |-> undefined]

\* const startTime = Date.now(); let lastResult; let attempts = 0
PollLocals(t) ==
  [startTime |-> t, lastResult |-> undefined, attempts |-> 0, i |-> 0,
   wake |-> 0, outcome |-> undefined]

\* let lastError; let attempt = 1
RetryLocals(t) ==
  [attempt |-> 1, lastError |-> undefined, i |-> 0,
   wake |-> 0, outcome |-> undefined]

\* pollUntil at its while condition at time t: the next attempt, or the throw.
PollCheck(c, t) ==
  IF t - c.startTime < MaxWaitOf(c.options)
  THEN [c EXCEPT !.attempts = @ + 1, !.i = @ + 1, !.pc = "await",
                 !.wake = t + ScriptAt(c.script, c.i + 1).lat]
  ELSE [c EXCEPT !.pc = "threw",
                 !.outcome = ThrewOutcome(
                    PollTimeoutMessage(c.options, c.attempts, c.lastResult),
                    c.attempts)]

\* pollUntil resumes at time t, after its accessor or after its sleep.
PollResume(c, t) ==
  IF c.pc = "sleep" THEN PollCheck(c, t)
  ELSE LET s == ScriptAt(c.script, c.i)
       IN  IF s.ok
           THEN IF CallerCondition(c.condition, s.value)
                THEN [c EXCEPT !.lastResult = s.value, !.pc = "returned",
                               !.outcome = ReturnedOutcome(s.value, c.attempts)]
                ELSE [c EXCEPT !.lastResult = s.value, !.pc = "sleep",
                               !.wake = t + PollIntervalOf(c.options)]
           ELSE [c EXCEPT !.pc = "sleep",
                          !.wake = t + PollIntervalOf(c.options)]

\* retry at its for condition at time t: the next attempt, or the throw.
RetryCheck(c, t) ==
  IF c.attempt <= RetryMaxAttempts(c.options)
  THEN [c EXCEPT !.i = @ + 1, !.pc = "await",
                 !.wake = t + ScriptAt(c.script, c.i + 1).lat]
  ELSE [c EXCEPT !.pc = "threw",
                 !.outcome = ThrewOutcome(RetryError(c.options, c.lastError),
                                          c.i)]

\* retry resumes at time t, after its operation or after its sleep.
RetryResume(c, t) ==
  IF c.pc = "sleep" THEN RetryCheck([c EXCEPT !.attempt = @ + 1], t)
  ELSE LET s == ScriptAt(c.script, c.i)
       IN  IF s.ok
           THEN [c EXCEPT !.pc = "returned",
                          !.outcome = ReturnedOutcome(s.value, c.i)]
           ELSE IF c.attempt = RetryMaxAttempts(c.options)
                THEN [c EXCEPT !.lastError = s.error, !.pc = "threw",
                               !.outcome = ThrewOutcome(
                                  RetryError(c.options, s.error), c.i)]
                ELSE [c EXCEPT !.lastError = s.error, !.pc = "sleep",
                               !.wake = t + RetryDelay(c.options, c.attempt)]

Suspended(c) == c.pc \in {"await", "sleep"}

ConcurrentInit ==
  /\ PollIdle
  /\ predicateCall = Idle /\ retryCall = Idle /\ requestCall = Idle
  /\ toolCall = Idle /\ cleanupCall = Idle
  /\ \E cs \in [Slots -> CallConfigs] :
       concurrentCalls = [pc |-> "running", clock |-> 0, calls |-> cs]

\* The caller makes the call p: it runs to its first await.
CallEnters(p) ==
  /\ concurrentCalls.pc = "running"
  /\ concurrentCalls.calls[p].pc = "ready"
  /\ LET c == concurrentCalls.calls[p]
         t == concurrentCalls.clock
     IN  concurrentCalls' =
           [concurrentCalls EXCEPT
              !.calls[p] = IF c.kind = "pollUntil"
                           THEN PollCheck(PollLocals(t) @@ c, t)
                           ELSE RetryCheck(RetryLocals(t) @@ c, t)]
  /\ UNCHANGED <<pollVars, predicateCall, retryCall, requestCall,
                 toolCall, cleanupCall>>

\* The event loop resumes the suspended call p whose await completes first.
CallResumes(p) ==
  /\ concurrentCalls.pc = "running"
  /\ Suspended(concurrentCalls.calls[p])
  /\ \A q \in Slots :
       Suspended(concurrentCalls.calls[q]) =>
         concurrentCalls.calls[p].wake <= concurrentCalls.calls[q].wake
  /\ LET c == concurrentCalls.calls[p]
     IN  concurrentCalls' =
           [concurrentCalls EXCEPT
              !.clock = c.wake,
              !.calls[p] = IF c.kind = "pollUntil"
                           THEN PollResume(c, c.wake)
                           ELSE RetryResume(c, c.wake)]
  /\ UNCHANGED <<pollVars, predicateCall, retryCall, requestCall,
                 toolCall, cleanupCall>>

ConcurrentNext ==
  \/ \E p \in Slots : CallEnters(p)
  \/ \E p \in Slots : CallResumes(p)

ConcurrentSpec == ConcurrentInit /\ [][ConcurrentNext]_vars

RECURSIVE SoloPoll(_, _, _, _, _)
\* The outcome of pollUntil running alone against a script: n attempts made,
\* t ms after its start, last the latest result.
SoloPoll(c, n, t, last, fuel) ==
  IF fuel = 0 \/ ~(t < MaxWaitOf(c.options))
  THEN ThrewOutcome(PollTimeoutMessage(c.options, n, last), n)
  ELSE LET s == ScriptAt(c.script, n + 1)
       IN  IF s.ok /\ CallerCondition(c.condition, s.value)
           THEN ReturnedOutcome(s.value, n + 1)
           ELSE SoloPoll(c, n + 1, t + s.lat + PollIntervalOf(c.options),
                         IF s.ok THEN s.value ELSE last, fuel - 1)

RECURSIVE SoloRetry(_, _)
\* The outcome of retry running alone against a script, at attempt k.
SoloRetry(c, k) ==
  LET s == ScriptAt(c.script, k)
  IN  IF s.ok THEN ReturnedOutcome(s.value, k)
      ELSE IF k >= RetryMaxAttempts(c.options)
           THEN ThrewOutcome(RetryError(c.options, s.error), k)
           ELSE SoloRetry(c, k + 1)

Solo(c) ==
  IF c.kind = "pollUntil" THEN SoloPoll(c, 0, 0, undefined, 40)
  ELSE SoloRetry(c, 1)

Finished(c) == c.pc \in {"returned", "threw"}

\* C22: calls of pollUntil and retry that run concurrently do not affect
\* each other: under every interleaving a call ends with the result, the
\* attempt count or the error it has when it runs alone against the same
\* answers, and its start time is the time of its own entry.
C22_IndependentCalls ==
  concurrentCalls.pc = "running" =>
    \A p \in Slots :
      LET c == concurrentCalls.calls[p]
      IN  /\ Finished(c) => c.outcome = Solo(c)
          /\ (c.pc # "ready" /\ c.kind = "pollUntil") =>
               /\ c.startTime <= concurrentCalls.clock
               /\ c.attempts = c.i
               /\ c.attempts <= Solo(c).attempts

C22_Witness ==
  /\ concurrentCalls.pc = "running"
  /\ LET a == concurrentCalls.calls[1]
         b == concurrentCalls.calls[2]
     IN  /\ a.kind = "pollUntil" /\ b.kind = "pollUntil"
         /\ Finished(a) /\ Finished(b)
         /\ a.startTime = 0 /\ b.startTime = 1000
         /\ a.outcome.status = "returned" /\ a.outcome.attempts = 2
         /\ b.outcome.status = "threw" /\ b.outcome.attempts = 2
         /\ b.script # a.script
====
